---- MODULE Spec2Model ----
(***************************************************************************)
(* A model of streamlit_app.py: the roster normaliser                      *)
(* (process_uploaded_file), the batch assigner (form_batches_by_subject),  *)
(* the grid-mode conflict detector (detect_conflicts) and the Streamlit    *)
(* script that chains them through st.session_state.                       *)
(*                                                                         *)
(* Text is modelled by TLA+ strings, which are sequences of characters:    *)
(* Len, SubSeq and \o act on them as they do on Python's str.  A table     *)
(* (pandas DataFrame) is a record of its column names and its rows.        *)
(***************************************************************************)
EXTENDS Integers, Sequences, FiniteSets, TLC

VARIABLES
    pandas_legacy,      \* the installed pandas gives an empty list column dtype float64 (1.x) or object (2.x)
    uploaded_files,     \* the roster uploader's files, in upload order (line 99)
    batch_size,         \* the number_input's value (line 103)
    session_state,      \* st.session_state: [has |-> "subject_batches" is set, subject_batches |-> the dict]
    timetable_file,     \* the timetable uploader's file, or NoFile (line 115)
    student_batches_df, \* the combined batch table built by the last script run (lines 122-129)
    conflict_df,        \* the rows returned by the last detect_conflicts call (line 146)
    shown,              \* what the last run or call reported to the user
    result,             \* the value returned by the last call of the function under study
    pc                  \* position of the call or script run: "input", "done"

vars == << pandas_legacy, uploaded_files, batch_size, session_state, timetable_file,
           student_batches_df, conflict_df, shown, result, pc >>

(***************************************************************************)
(* Bounds of the model.                                                    *)
(***************************************************************************)
MaxDecoyRows == 16      \* rows that may precede the header row of a spreadsheet
MaxFiles == 2           \* files in one upload list
MaxStudents == 4        \* students in a roster of the family phy.csv
MaxSlots == 2           \* rows of a timetable
MaxBatchSize == 3       \* batch sizes 1..MaxBatchSize for form_batches_by_subject called directly
MaxTypedSize == 5       \* batch sizes MinBatchSize..MaxTypedSize typed into the app's number input

(***************************************************************************)
(* Python str operations.                                                  *)
(***************************************************************************)
NaN == "<NaN>"          \* a missing cell (numpy.nan); no text of the model contains "<"

\* the letters str.upper() changes, and the letters str.lower() changes
UpperOf ==
    [ a |-> "A", b |-> "B", c |-> "C", d |-> "D", e |-> "E", f |-> "F", g |-> "G", h |-> "H", i |-> "I",
      j |-> "J", k |-> "K", l |-> "L", m |-> "M", n |-> "N", o |-> "O", p |-> "P", q |-> "Q", r |-> "R",
      s |-> "S", t |-> "T", u |-> "U", v |-> "V", w |-> "W", x |-> "X", y |-> "Y", z |-> "Z" ]

LowerOf ==
    [ A |-> "a", B |-> "b", C |-> "c", D |-> "d", E |-> "e", F |-> "f", G |-> "g", H |-> "h", I |-> "i",
      J |-> "j", K |-> "k", L |-> "l", M |-> "m", N |-> "n", O |-> "o", P |-> "p", Q |-> "q", R |-> "r",
      S |-> "s", T |-> "t", U |-> "u", V |-> "v", W |-> "w", X |-> "x", Y |-> "y", Z |-> "z" ]

Ch(s, i) == SubSeq(s, i, i)

UpperCh(c) == IF c \in DOMAIN UpperOf THEN UpperOf[c] ELSE c

LowerCh(c) == IF c \in DOMAIN LowerOf THEN LowerOf[c] ELSE c

RECURSIVE Upper(_)
Upper(s) == IF s = "" THEN "" ELSE UpperCh(Ch(s, 1)) \o Upper(SubSeq(s, 2, Len(s)))

RECURSIVE Lower(_)
Lower(s) == IF s = "" THEN "" ELSE LowerCh(Ch(s, 1)) \o Lower(SubSeq(s, 2, Len(s)))

\* str.strip(): leading and trailing whitespace removed
RECURSIVE LStrip(_)
LStrip(s) == IF s # "" /\ Ch(s, 1) = " " THEN LStrip(SubSeq(s, 2, Len(s))) ELSE s

RECURSIVE RStrip(_)
RStrip(s) == IF s # "" /\ Ch(s, Len(s)) = " " THEN RStrip(SubSeq(s, 1, Len(s) - 1)) ELSE s

Strip(s) == LStrip(RStrip(s))

\* str.replace(" ", "")
RECURSIVE RemoveSpaces(_)
RemoveSpaces(s) ==
    IF s = "" THEN ""
    ELSE (IF Ch(s, 1) = " " THEN "" ELSE Ch(s, 1)) \o RemoveSpaces(SubSeq(s, 2, Len(s)))

\* pattern in text
Contains(s, p) == \E i \in 1..(Len(s) - Len(p) + 1) : SubSeq(s, i, i + Len(p) - 1) = p

\* str.split(sep) for a one-character sep
RECURSIVE Split(_, _)
Split(s, sep) ==
    IF \E i \in 1..Len(s) : Ch(s, i) = sep
    THEN LET i == CHOOSE j \in 1..Len(s) :
                      Ch(s, j) = sep /\ \A k \in 1..(j - 1) : Ch(s, k) # sep
         IN  << SubSeq(s, 1, i - 1) >> \o Split(SubSeq(s, i + 1, Len(s)), sep)
    ELSE << s >>

\* ", ".join(seq)
RECURSIVE Join(_)
Join(seq) ==
    IF seq = << >> THEN ""
    ELSE IF Len(seq) = 1 THEN seq[1]
    ELSE seq[1] \o ", " \o Join(Tail(seq))

\* str(n) for n >= 0
Digits == "0123456789"

RECURSIVE Str(_)
Str(n) == IF n < 10 THEN Ch(Digits, n + 1) ELSE Str(n \div 10) \o Ch(Digits, (n % 10) + 1)

\* os.path.splitext(name)[0]: the name up to its last dot, unless only dots precede it
LastDot(name) ==
    IF \E i \in 1..Len(name) : Ch(name, i) = "."
    THEN CHOOSE i \in 1..Len(name) :
             Ch(name, i) = "." /\ \A k \in (i + 1)..Len(name) : Ch(name, k) # "."
    ELSE 0

SplitextRoot(name) ==
    LET d == LastDot(name)
    IN  IF d > 0 /\ \E k \in 1..(d - 1) : Ch(name, k) # "." THEN SubSeq(name, 1, d - 1) ELSE name

\* name.split('.')[-1]
LastPart(name) == SubSeq(name, LastDot(name) + 1, Len(name))

Range(seq) == { seq[i] : i \in 1..Len(seq) }

\* Body applied to a value that is computed once
With(value, Body(_)) == CHOOSE r \in { Body(x) : x \in { value } } : TRUE

(***************************************************************************)
(* Tables.  An uploaded file has a name, the kind of its content ("csv",   *)
(* "excel", or "garbage" that no reader parses) and its rows of cells.     *)
(* A DataFrame is [columns, rows]; every row has one cell per column.      *)
(***************************************************************************)
DataFrame(columns, rows) == [columns |-> columns, rows |-> rows]

None == [columns |-> << >>, rows |-> << >>]

\* the value a reader gives a header cell: a missing one is named by its position
ColumnName(row, i) == IF row[i] = NaN THEN "Unnamed: " \o Str(i - 1) ELSE row[i]

HeaderOf(row) == [i \in 1..Len(row) |-> ColumnName(row, i)]

\* pd.read_csv(uploaded_file): the first line is the header; raises on content it cannot parse
ReadCsvRaises(file) == file.kind # "csv" \/ file.rows = << >>

ReadCsv(file) == DataFrame(HeaderOf(file.rows[1]), Tail(file.rows))

\* pd.read_excel(uploaded_file, ...): raises on content that is no workbook
ReadExcelRaises(file) == file.kind # "excel"

\* pd.read_excel(uploaded_file, header=header_row), header_row counted from 0
ReadExcel(file, header_row) ==
    DataFrame(HeaderOf(file.rows[header_row + 1]),
              SubSeq(file.rows, header_row + 2, Len(file.rows)))

(***************************************************************************)
(* process_uploaded_file (lines 10-44).                                    *)
(***************************************************************************)
HeaderScanRows == 15

IdentifierPattern == << "roll no", "registration number", "reg no", "roll number" >>

roll_candidates == << "roll no", "roll number", "registration number", "reg no" >>

\* str(cell).lower() matches the pattern "roll no|registration number|reg no|roll number"
CellMatches(cell) ==
    LET text == Lower(IF cell = NaN THEN "nan" ELSE cell)
    IN  \E k \in 1..Len(IdentifierPattern) : Contains(text, IdentifierPattern[k])

RowMatches(row) == \E c \in 1..Len(row) : CellMatches(row[c])

Min(a, b) == IF a < b THEN a ELSE b

\* a scan that has no limit of 15 rows
ScanWindow_Unbounded(raw_rows) == 0..(Len(raw_rows) - 1)

\* the rows the loop of line 18 visits, as indices counted from 0
ScanWindow(raw_rows) == 0..(Min(HeaderScanRows, Len(raw_rows)) - 1)

\* lines 17-22: the first row of the window with a matching cell, or -1 for None
DetectHeaderRow(raw_rows) ==
    LET hits == { i \in ScanWindow(raw_rows) : RowMatches(raw_rows[i + 1]) }
    IN  IF hits = {} THEN -1 ELSE CHOOSE i \in hits : \A j \in hits : i <= j

\* line 32
NormalizeColumns(columns) == [i \in 1..Len(columns) |-> Lower(Strip(columns[i]))]

IsRollCandidate(col) == \E k \in 1..Len(roll_candidates) : col = roll_candidates[k]

\* line 34: the first column that is one of roll_candidates, or 0 for None
MatchedCol(columns) ==
    LET hits == { i \in 1..Len(columns) : IsRollCandidate(columns[i]) }
    IN  IF hits = {} THEN 0 ELSE CHOOSE i \in hits : \A j \in hits : i <= j

\* line 40: df.rename(columns={matched_col: 'roll no'})
RenameColumn(columns, old, new) ==
    [i \in 1..Len(columns) |-> IF columns[i] = old THEN new ELSE columns[i]]

\* what a call leaves: ok is FALSE where it returns None, error is what st.error
\* showed, header_row is the local of that name when the call ended (-1 for None)
Failure(error, header_row) ==
    [ok |-> FALSE, error |-> error, df |-> None, header_row |-> header_row]

\* lines 32-41, on the table a reader returned
NormalizeTable(df, header_row) ==
    With(NormalizeColumns(df.columns), LAMBDA columns :
    With(MatchedCol(columns), LAMBDA m :
        IF m = 0 THEN Failure("Roll number column missing.", header_row)
        ELSE [ok |-> TRUE, error |-> "", header_row |-> header_row,
              df |-> DataFrame(RenameColumn(columns, columns[m], "roll no"), df.rows)]))

process_uploaded_file(uploaded_file) ==
    With(Lower(LastPart(uploaded_file.name)), LAMBDA ext :
        IF ext = "csv"
        THEN IF ReadCsvRaises(uploaded_file) THEN Failure("Error processing", -1)
             ELSE NormalizeTable(ReadCsv(uploaded_file), -1)
        ELSE IF ext \in {"xls", "xlsx"}
        THEN IF ReadExcelRaises(uploaded_file) THEN Failure("Error processing", -1)
             ELSE With(DetectHeaderRow(uploaded_file.rows), LAMBDA header_row :
                      IF header_row # -1
                      THEN NormalizeTable(ReadExcel(uploaded_file, header_row), header_row)
                      ELSE Failure("Could not detect header row.", -1))
        ELSE Failure("Unsupported file format.", -1))

(***************************************************************************)
(* form_batches_by_subject (lines 47-57).  A Python dict is the sequence   *)
(* of its entries in insertion order; assigning to a key that is present   *)
(* replaces the value where the key stands.                                *)
(***************************************************************************)
DictKeys(d) == [i \in 1..Len(d) |-> d[i].key]

DictHas(d, key) == \E i \in 1..Len(d) : d[i].key = key

DictGet(d, key) == d[CHOOSE i \in 1..Len(d) : d[i].key = key].value

DictSet(d, key, value) ==
    IF DictHas(d, key)
    THEN [i \in 1..Len(d) |-> IF d[i].key = key THEN [key |-> key, value |-> value] ELSE d[i]]
    ELSE Append(d, [key |-> key, value |-> value])

HasColumn(df, name) == \E i \in 1..Len(df.columns) : df.columns[i] = name

ColumnIndex(df, name) == CHOOSE i \in 1..Len(df.columns) : df.columns[i] = name

\* line 50
SubjectOf(file) == Upper(SplitextRoot(file.name))

\* line 53 raises KeyError unless the three columns are there
SelectRaises(df) ==
    ~ (HasColumn(df, "division") /\ HasColumn(df, "roll no") /\ HasColumn(df, "student name"))

\* the row index counted from 1
BatchCode_FromOne(subject, i, size) == subject \o Str(((i + 1) \div size) + 1)

\* line 55, for the row at index i counted from 0
BatchCode(subject, i, size) == subject \o Str((i \div size) + 1)

\* lines 53-55: the three columns of every row, in row order, and its Batch
BatchTable(df, subject, size) ==
    With(<< ColumnIndex(df, "division"), ColumnIndex(df, "roll no"),
            ColumnIndex(df, "student name") >>, LAMBDA at :
        [r \in 1..Len(df.rows) |->
            [division     |-> df.rows[r][at[1]],
             roll_no      |-> df.rows[r][at[2]],
             student_name |-> df.rows[r][at[3]],
             Batch        |-> BatchCode(subject, r - 1, size)]])

\* a loop that a rejected file ends
RECURSIVE FormFrom_StopAtRejected(_, _, _, _)
FormFrom_StopAtRejected(files, size, k, subject_batches) ==
    IF k > Len(files) THEN [raised |-> FALSE, subject_batches |-> subject_batches]
    ELSE With(SubjectOf(files[k]), LAMBDA subject :
         With(process_uploaded_file(files[k]), LAMBDA got :
             IF ~ got.ok THEN [raised |-> FALSE, subject_batches |-> subject_batches]
             ELSE IF SelectRaises(got.df) THEN [raised |-> TRUE, subject_batches |-> << >>]
             ELSE FormFrom_StopAtRejected(files, size, k + 1,
                      DictSet(subject_batches, subject, BatchTable(got.df, subject, size)))))

\* the loop of lines 49-56 from file number k on, with the dict built so far
RECURSIVE FormFrom(_, _, _, _)
FormFrom(files, size, k, subject_batches) ==
    IF k > Len(files) THEN [raised |-> FALSE, subject_batches |-> subject_batches]
    ELSE With(SubjectOf(files[k]), LAMBDA subject :
         With(process_uploaded_file(files[k]), LAMBDA got :
             IF ~ got.ok THEN FormFrom(files, size, k + 1, subject_batches)
             ELSE IF SelectRaises(got.df) THEN [raised |-> TRUE, subject_batches |-> << >>]
             ELSE FormFrom(files, size, k + 1,
                           DictSet(subject_batches, subject, BatchTable(got.df, subject, size)))))

\* raised: the call ended in an exception and returned nothing
form_batches_by_subject(files, size) == FormFrom(files, size, 1, << >>)

(***************************************************************************)
(* The combined batch table (lines 122-129).                               *)
(***************************************************************************)
\* line 129 and line 64
NormalizeBatch(code) == Upper(RemoveSpaces(code))

\* lines 124-127, for one subject
CombinedRows(subject, df) ==
    [r \in 1..Len(df) |->
        [Division            |-> df[r].division,
         Batch_Number        |-> df[r].Batch,
         Registration_Number |-> df[r].roll_no,
         Student_Name        |-> df[r].student_name,
         Course              |-> subject]]

RECURSIVE Concat(_)
Concat(frames) == IF frames = << >> THEN << >> ELSE Head(frames) \o Concat(Tail(frames))

\* line 128: pd.concat raises ValueError when there is nothing to concatenate
ConcatRaises(subject_batches) == subject_batches = << >>

\* line 129: the .str accessor raises AttributeError on a column that is not text,
\* which is what a table without rows holds where an empty list column is float64
StrAccessorRaises(subject_batches, legacy) ==
    legacy /\ \A i \in 1..Len(subject_batches) : subject_batches[i].value = << >>

CombineRaises(subject_batches, legacy) ==
    ConcatRaises(subject_batches) \/ StrAccessorRaises(subject_batches, legacy)

CombinedBatches(subject_batches) ==
    LET all == Concat([i \in 1..Len(subject_batches) |->
                          CombinedRows(subject_batches[i].key, subject_batches[i].value)])
    IN  [r \in 1..Len(all) |->
            [all[r] EXCEPT !.Batch_Number = NormalizeBatch(all[r].Batch_Number)]]

(***************************************************************************)
(* detect_conflicts (lines 60-92).  The timetable is a DataFrame whose     *)
(* column names were stripped by line 119.                                 *)
(***************************************************************************)
days == << "Monday", "Tuesday", "Wednesday", "Thursday", "Friday" >>

\* line 64
NormalizedBatches(df) ==
    [r \in 1..Len(df) |-> [df[r] EXCEPT !.Batch_Number = NormalizeBatch(df[r].Batch_Number)]]

\* line 65
KnownBatches(df) == { df[r].Batch_Number : r \in 1..Len(df) }

\* tokens compared as they are written
RawBatches_CaseSensitive(cell) ==
    LET Filled(x) == Strip(x) # ""
        tokens == SelectSeq(Split(cell, ";"), Filled)
    IN  [i \in 1..Len(tokens) |-> RemoveSpaces(Strip(tokens[i]))]

\* line 74: the tokens of a cell that are not blank, each stripped, without spaces, upper-cased
NonBlank(x) == Strip(x) # ""

RawBatches(cell) ==
    LET tokens == SelectSeq(Split(cell, ";"), NonBlank)
    IN  [i \in 1..Len(tokens) |-> Upper(RemoveSpaces(Strip(tokens[i])))]

\* line 75
ActiveBatches(cell, known_batches) ==
    LET Known(b) == b \in known_batches
    IN  SelectSeq(RawBatches(cell), Known)

\* line 77
Filtered(df, active_batches) ==
    LET Active(row) == row.Batch_Number \in Range(active_batches)
    IN  SelectSeq(df, Active)

RowsOf(filtered, reg) ==
    LET Mine(row) == row.Registration_Number = reg
    IN  SelectSeq(filtered, Mine)

FirstIndex(filtered, reg) ==
    CHOOSE i \in 1..Len(filtered) :
        filtered[i].Registration_Number = reg
        /\ \A j \in 1..(i - 1) : filtered[j].Registration_Number # reg

\* lines 78-79: the identifiers counted more than once, the most frequent first
\* and, among equally frequent ones, in order of first appearance
RECURSIVE Ordered(_, _)
Ordered(regs, filtered) ==
    IF regs = {} THEN << >>
    ELSE LET Before(a, b) ==
                 \/ Len(RowsOf(filtered, a)) > Len(RowsOf(filtered, b))
                 \/ /\ Len(RowsOf(filtered, a)) = Len(RowsOf(filtered, b))
                    /\ FirstIndex(filtered, a) <= FirstIndex(filtered, b)
             first == CHOOSE a \in regs : \A b \in regs : Before(a, b)
         IN  << first >> \o Ordered(regs \ {first}, filtered)

\* a conflict only from the third row on
ConflictsRegs_MoreThanTwo(filtered) ==
    Ordered({ reg \in { filtered[i].Registration_Number : i \in 1..Len(filtered) } :
                  Len(RowsOf(filtered, reg)) > 2 },
            filtered)

ConflictsRegs(filtered) ==
    Ordered({ reg \in { filtered[i].Registration_Number : i \in 1..Len(filtered) } :
                  Len(RowsOf(filtered, reg)) > 1 },
            filtered)

\* lines 82-91
ConflictRow(filtered, reg, day, time_slot) ==
    With(RowsOf(filtered, reg), LAMBDA mine :
        [Student_Name        |-> mine[1].Student_Name,
         Registration_Number |-> reg,
         Division            |-> mine[1].Division,
         Day                 |-> day,
         Time_Slot           |-> time_slot,
         Conflicting_Batches |-> Join([i \in 1..Len(mine) |-> mine[i].Batch_Number])])

\* lines 73-91 for one row of daily_schedule
CellConflicts(df, known_batches, day, class_time, cell) ==
    With(Filtered(df, ActiveBatches(cell, known_batches)), LAMBDA filtered :
    With(ConflictsRegs(filtered), LAMBDA regs :
        [i \in 1..Len(regs) |-> ConflictRow(filtered, regs[i], day, Strip(class_time))]))

\* line 71: the rows of timetable[["Class time", day]] that have both cells
DailySchedule(timetable, day) ==
    LET t == ColumnIndex(timetable, "Class time")
        d == ColumnIndex(timetable, day)
        Full(row) == row[t] # NaN /\ row[d] # NaN
    IN  With(SelectSeq(timetable.rows, Full), LAMBDA kept :
            [i \in 1..Len(kept) |-> [class_time |-> kept[i][t], cell |-> kept[i][d]]])

DayConflicts(df, known_batches, timetable, day) ==
    With(DailySchedule(timetable, day), LAMBDA schedule :
        Concat([i \in 1..Len(schedule) |->
                   CellConflicts(df, known_batches, day, schedule[i].class_time, schedule[i].cell)]))

\* lines 68-69
DaysPresent(timetable) ==
    LET Present(day) == HasColumn(timetable, day)
    IN  SelectSeq(days, Present)

\* line 71 raises KeyError for the first weekday column when "Class time" is no column
DetectRaises(timetable) == DaysPresent(timetable) # << >> /\ ~ HasColumn(timetable, "Class time")

\* the rows of the returned DataFrame, in the order they were appended
detect_conflicts(student_batches, timetable) ==
    With(NormalizedBatches(student_batches), LAMBDA df :
    With(KnownBatches(df), LAMBDA known_batches :
    With(DaysPresent(timetable), LAMBDA present :
        Concat([k \in 1..Len(present) |->
                   DayConflicts(df, known_batches, timetable, present[k])]))))

(***************************************************************************)
(* Inputs: files a user can upload.                                        *)
(***************************************************************************)
File(name, kind, rows) == [name |-> name, kind |-> kind, rows |-> rows]

NoFile == File("", "none", << >>)

\* the roster row of student number n
Student(n) == << "A", "R" \o Str(n), "S" \o Str(n) >>

Students(ids) == [k \in 1..Len(ids) |-> Student(ids[k])]

FirstStudents(n) == [k \in 1..n |-> Student(k)]

GoodHeader == << "Division", "Roll No", "Student Name" >>

\* rows that may stand above a header row
DecoyRows == { << "PCCOE", NaN, NaN >>, << "Allotment list", "Sem II", "Sr no roll" >> }

\* rows that may stand where the header row is expected
HeaderRows ==
    { GoodHeader,
      << "division ", " REG NO ", "STUDENT NAME" >>,
      << "Division", "Registration Number", "Student Name" >>,
      << "Division", "Student Roll No.", "Student Name" >>,
      << "Roll Number wise list", NaN, NaN >>,
      << "Division", "Name", "Marks" >> }

Pad(row, k) == [i \in 1..k |-> row]

\* a sheet: k decoy rows, a row h, then rows of students, with or without a header of their own
Sheets ==
    { Pad(d, k) \o << h >> \o tail :
        d \in DecoyRows, k \in 0..MaxDecoyRows, h \in HeaderRows,
        tail \in { FirstStudents(2), << GoodHeader >> \o FirstStudents(2) } }
    \cup { Pad(d, k) : d \in DecoyRows, k \in 0..MaxDecoyRows }

HeaderFiles ==
    { File(name, "excel", rows) : name \in {"ds.xlsx", "ds.XLS"}, rows \in Sheets }
    \cup { File("ds.csv", "csv", rows) : rows \in Sheets }
    \cup { File("ds.xlsx", "garbage", << >>), File("ds.csv", "garbage", << >>),
           File("ds.pdf", "excel", << GoodHeader >>), File("xlsx", "excel", << GoodHeader >>) }

(***************************************************************************)
(* SpecHeader: process_uploaded_file called on one file.                   *)
(***************************************************************************)
Unused == "unused"

InitHeader ==
    /\ uploaded_files \in { << f >> : f \in HeaderFiles }
    /\ result = Unused
    /\ pc = "input"
    /\ pandas_legacy = FALSE
    /\ batch_size = 0
    /\ session_state = Unused
    /\ timetable_file = NoFile
    /\ student_batches_df = << >>
    /\ conflict_df = << >>
    /\ shown = Unused

ProcessUploadedFile ==
    /\ pc = "input"
    /\ result' = process_uploaded_file(uploaded_files[1])
    /\ pc' = "done"
    /\ UNCHANGED << pandas_legacy, uploaded_files, batch_size, session_state, timetable_file,
                    student_batches_df, conflict_df, shown >>

NextHeader == ProcessUploadedFile

SpecHeader == InitHeader /\ [][NextHeader]_vars

(***************************************************************************)
(* Claims about process_uploaded_file, checked under SpecHeader.           *)
(***************************************************************************)
IdentifierNames == { "roll no", "registration number", "reg no", "roll number" }

\* the text, case-insensitively, equals or contains one of the identifier names
NamesIdentifier(text) == \E n \in IdentifierNames : Contains(Lower(text), n)

Qualifies(row) == \E c \in 1..Len(row) : row[c] # NaN /\ NamesIdentifier(row[c])

TheFile == uploaded_files[1]

IsSpreadsheetCall ==
    /\ pc = "done"
    /\ Lower(LastPart(TheFile.name)) \in {"xls", "xlsx"}
    /\ TheFile.kind = "excel"

QualifyingRows == { i \in 0..14 : i < Len(TheFile.rows) /\ Qualifies(TheFile.rows[i + 1]) }

Least(S) == CHOOSE i \in S : \A j \in S : i <= j

\* C5: on a spreadsheet the header is the first of rows 0..14 that has a cell
\* naming the identifier, the table's rows are the rows below it, and when no
\* row of the window has such a cell the call reports "Could not detect header
\* row." and returns no table.
C5_HeaderDetection ==
    IsSpreadsheetCall =>
        With(QualifyingRows, LAMBDA qualifying :
            IF qualifying # {}
            THEN /\ result.header_row = Least(qualifying)
                 /\ result.error # "Could not detect header row."
                 /\ result.ok => result.df.rows =
                        SubSeq(TheFile.rows, Least(qualifying) + 2, Len(TheFile.rows))
            ELSE /\ ~ result.ok
                 /\ result.error = "Could not detect header row."
                 /\ result.df = None)

\* the true header stands at row 4 below four decoy rows and is the row detected
C5_Witness ==
    /\ IsSpreadsheetCall
    /\ Len(TheFile.rows) > 4
    /\ \A i \in 1..4 : TheFile.rows[i] \in DecoyRows
    /\ TheFile.rows[5] = GoodHeader
    /\ result.ok
    /\ result.header_row = 4

\* the column names of the table the reader returned, normalized as by line 32
TableWasRead ==
    /\ pc = "done"
    /\ \/ Lower(LastPart(TheFile.name)) = "csv" /\ TheFile.kind = "csv" /\ TheFile.rows # << >>
       \/ IsSpreadsheetCall /\ result.header_row # -1

ColumnsRead ==
    LET row == IF Lower(LastPart(TheFile.name)) = "csv" THEN TheFile.rows[1]
               ELSE TheFile.rows[result.header_row + 1]
    IN  [i \in 1..Len(row) |-> Lower(Strip(ColumnName(row, i)))]

IdentifierColumns == { i \in 1..Len(ColumnsRead) : NamesIdentifier(ColumnsRead[i]) }

\* C6: a column whose normalized name equals or contains an identifier name is
\* recognized: the one such column is renamed 'roll no' and the table returned;
\* "Roll number column missing." is reported only when no column matches; so a
\* spreadsheet whose header row was detected through one identifier cell is
\* normalized successfully.
C6_IdentifierColumn ==
    TableWasRead =>
        /\ IdentifierColumns # {} => result.ok
        /\ \A i \in IdentifierColumns :
               Cardinality(IdentifierColumns) = 1 /\ result.ok => result.df.columns[i] = "roll no"
        /\ result.error = "Roll number column missing." => IdentifierColumns = {}
        /\ IsSpreadsheetCall /\ Cardinality(IdentifierColumns) = 1 => result.ok

(***************************************************************************)
(* SpecBatch: form_batches_by_subject called on a list of files.           *)
(***************************************************************************)
OtherHeader == << "division ", " REG NO ", "STUDENT NAME" >>

BatchFiles ==
    { File("phy.csv", "csv", << GoodHeader >> \o FirstStudents(n)) : n \in 0..MaxStudents }
    \cup
    { File("phy.csv", "csv", << GoodHeader >> \o FirstStudents(11)),
      File("phy1.csv", "csv", << GoodHeader >> \o Students(<< 1, 12 >>)),
      File("PHY.xlsx", "excel", << << "PCCOE", NaN, NaN >>, OtherHeader >> \o Students(<< 2, 3 >>)),
      File("phy .csv", "csv", << GoodHeader >> \o Students(<< 3, 4 >>)),
      File("notes.txt", "csv", << GoodHeader >> \o FirstStudents(2)),
      File("bad.csv", "garbage", << >>),
      File("old.xls", "excel", << << "PCCOE", NaN, NaN >>, << "Division", "Name", "Marks" >> >>),
      File("bio.csv", "csv", << << "Division", "Name", "Student Name" >>, Student(1) >>),
      File("geo.csv", "csv", << << "Roll No", "Student Name" >>, << "R1", "S1" >> >>) }

SeqsUpTo(S, n) == UNION { [1..k -> S] : k \in 0..n }

InitBatch ==
    /\ uploaded_files \in SeqsUpTo(BatchFiles, MaxFiles)
    /\ batch_size \in 1..MaxBatchSize
    /\ result = Unused
    /\ pc = "input"
    /\ pandas_legacy = FALSE
    /\ session_state = Unused
    /\ timetable_file = NoFile
    /\ student_batches_df = << >>
    /\ conflict_df = << >>
    /\ shown = Unused

FormBatches ==
    /\ pc = "input"
    /\ result' = form_batches_by_subject(uploaded_files, batch_size)
    /\ pc' = "done"
    /\ UNCHANGED << pandas_legacy, uploaded_files, batch_size, session_state, timetable_file,
                    student_batches_df, conflict_df, shown >>

NextBatch == FormBatches

SpecBatch == InitBatch /\ [][NextBatch]_vars

(***************************************************************************)
(* Claims about form_batches_by_subject, checked under SpecBatch.          *)
(***************************************************************************)
Returned == pc = "done" /\ ~ result.raised

Accepted(file) == process_uploaded_file(file).ok

\* what process_uploaded_file gives for each file of the list
RECURSIVE Processed(_)
Processed(files) ==
    IF files = << >> THEN << >>
    ELSE << process_uploaded_file(Head(files)) >> \o Processed(Tail(files))

\* the file whose table stands under the subject key: the last accepted one mapped to it
SourceOf(subject, processed) ==
    CHOOSE i \in 1..Len(uploaded_files) :
        /\ processed[i].ok /\ SubjectOf(uploaded_files[i]) = subject
        /\ \A j \in (i + 1)..Len(uploaded_files) :
               ~ (processed[j].ok /\ SubjectOf(uploaded_files[j]) = subject)

\* the identifiers of a normalized roster, in row order
Roster(df) == [r \in 1..Len(df.rows) |-> df.rows[r][ColumnIndex(df, "roll no")]]

CeilDiv(n, b) == (n + b - 1) \div b

Members(table, code) == { r \in 1..Len(table) : table[r].Batch = code }

\* C1: a roster of N students and batch size B gives ceil(N/B) batches numbered
\* 1..ceil(N/B), each of at most B students, the student of row i (from 0) in
\* batch floor(i/B)+1, every student of the roster in the table once and in
\* roster order; a roster without students gives an empty table.
C1_BatchPartition ==
    Returned =>
        With(Processed(uploaded_files), LAMBDA processed :
            /\ \A i \in 1..Len(uploaded_files) :
                   processed[i].ok =>
                       DictHas(result.subject_batches, SubjectOf(uploaded_files[i]))
            /\ \A e \in 1..Len(result.subject_batches) :
                   With(result.subject_batches[e].key, LAMBDA subject :
                   With(result.subject_batches[e].value, LAMBDA table :
                   With(processed[SourceOf(subject, processed)].df, LAMBDA source :
                   With(Len(source.rows), LAMBDA N :
                   With(CeilDiv(N, batch_size), LAMBDA batches :
                       /\ Len(table) = N
                       /\ \A r \in 1..N : table[r].roll_no = Roster(source)[r]
                       /\ { table[r].Batch : r \in 1..N } = { subject \o Str(j) : j \in 1..batches }
                       /\ Cardinality({ table[r].Batch : r \in 1..N }) = batches
                       /\ \A j \in 1..batches :
                              Cardinality(Members(table, subject \o Str(j))) <= batch_size
                       /\ \A r \in 1..N :
                              table[r].Batch = subject \o Str(((r - 1) \div batch_size) + 1)))))))

\* a roster split into several batches, the last of them not full
C1_Witness ==
    /\ Returned
    /\ \E e \in 1..Len(result.subject_batches) :
           LET table == result.subject_batches[e].value
           IN  /\ Len(table) > batch_size
               /\ Len(table) % batch_size # 0
               /\ table[Len(table)].Batch # table[1].Batch

RemoveAt(seq, i) == SubSeq(seq, 1, i - 1) \o SubSeq(seq, i + 1, Len(seq))

\* has the three columns line 53 selects
WellFormed(file) == Accepted(file) /\ ~ SelectRaises(process_uploaded_file(file).df)

\* C7: a rejected file (unsupported extension, unparsable content, header not
\* found, identifier column missing) changes nothing for the others: the call
\* gives what it gives without that file, wherever the file stands in the list,
\* and it completes when every other file is a rejected one or a usable roster.
C7_RejectedFileIsolated ==
    pc = "done" =>
        With(Processed(uploaded_files), LAMBDA processed :
            /\ \A i \in 1..Len(uploaded_files) :
                   ~ processed[i].ok =>
                       result = form_batches_by_subject(RemoveAt(uploaded_files, i), batch_size)
            /\ (\A i \in 1..Len(uploaded_files) :
                   ~ processed[i].ok \/ ~ SelectRaises(processed[i].df))
               => ~ result.raised)

\* a rejected file uploaded before a usable roster, whose table is in the result
C7_Witness ==
    /\ Returned
    /\ Len(uploaded_files) = 2
    /\ ~ Accepted(uploaded_files[1])
    /\ WellFormed(uploaded_files[2])
    /\ Len(result.subject_batches) = 1
    /\ result.subject_batches[1].value # << >>

\* the batches of the result: subject, sequence number, code, and the code as
\* the combined table holds it (line 129)
BatchesFormed ==
    UNION { { [subject  |-> result.subject_batches[e].key,
               sequence |-> ((r - 1) \div batch_size) + 1,
               code     |-> result.subject_batches[e].value[r].Batch,
               number   |-> NormalizeBatch(result.subject_batches[e].value[r].Batch)] :
                r \in 1..Len(result.subject_batches[e].value) } :
            e \in 1..Len(result.subject_batches) }

\* C10: different (subject, sequence) pairs have different batch codes, also as
\* 'Batch Number' of the combined table, and files of different names that are
\* both accepted have different subject keys.
C10_BatchCodesUnique ==
    Returned =>
        /\ \A b1, b2 \in BatchesFormed :
               (b1.subject # b2.subject \/ b1.sequence # b2.sequence)
                   => (b1.code # b2.code /\ b1.number # b2.number)
        /\ \A i, j \in 1..Len(uploaded_files) :
               /\ Accepted(uploaded_files[i]) /\ Accepted(uploaded_files[j])
               /\ uploaded_files[i].name # uploaded_files[j].name
               => SubjectOf(uploaded_files[i]) # SubjectOf(uploaded_files[j])

(***************************************************************************)
(* SpecDetect: detect_conflicts called on a combined batch table and a     *)
(* timetable, as lines 118-146 of the script prepare them.                 *)
(***************************************************************************)
\* lines 118-119: the first row of the sheet names the columns, which are stripped
LoadTimetable(file) ==
    LET columns == HeaderOf(file.rows[1])
    IN  DataFrame([i \in 1..Len(columns) |-> Strip(columns[i])], Tail(file.rows))

PhyRoster == File("phy.csv", "csv", << GoodHeader >> \o FirstStudents(3))

ChemRoster == File("chem.csv", "csv", << GoodHeader >> \o Students(<< 1, 3 >>))

\* a roster that lists student 1 twice
MathRoster == File("math.csv", "csv", << GoodHeader >> \o Students(<< 1, 1, 2 >>))

DetectUploads ==
    { << PhyRoster, ChemRoster >>, << ChemRoster, PhyRoster >>,
      << PhyRoster, MathRoster >>, << MathRoster >> }

DetectTables ==
    { CombinedBatches(form_batches_by_subject(files, size).subject_batches) :
        files \in DetectUploads, size \in 1..MaxBatchSize }

Cells ==
    { NaN, "PHY1;CHEM1", " phy1 ; Chem 1 ;xyz9", "PHY1;PHY1", "MATH1", "MATH1;MATH2;",
      "PHY2;XYZ9;CHEM1", "XYZ9" }

MondayRows ==
    { << "9:00", c >> : c \in Cells }
    \cup { << " 10:00 ", "PHY1;CHEM1" >>, << " 10:00 ", "MATH1" >>, << NaN, "PHY1;CHEM1" >> }

Timetables ==
    { File("tt.xlsx", "excel", << << "Class time", " Monday " >> >> \o rows) :
        rows \in SeqsUpTo(MondayRows, MaxSlots) }
    \cup
    { File("tt.xlsx", "excel", << << "Class time", "Tuesday", "Saturday", "Monday" >> >> \o << row >>) :
        row \in { << "9:00", c, "PHY1;CHEM1", d >> : c \in Cells, d \in { NaN, "PHY1;CHEM1" } } }
    \cup
    { File("tt.xlsx", "excel", << << "Time", "Monday" >>, << "9:00", "PHY1;CHEM1" >> >>),
      File("tt.xlsx", "excel", << << "Time", "monday" >>, << "9:00", "PHY1;CHEM1" >> >>),
      File("tt.xlsx", "excel", << << "Class time", "MONDAY" >>, << "9:00", "PHY1;CHEM1" >> >>) }

InitDetect ==
    /\ student_batches_df \in DetectTables
    /\ timetable_file \in Timetables
    /\ conflict_df = << >>
    /\ result = Unused
    /\ shown = Unused
    /\ pc = "input"
    /\ pandas_legacy = FALSE
    /\ uploaded_files = << >>
    /\ batch_size = 0
    /\ session_state = Unused

\* lines 147-160: what the app shows for a returned conflict table
Outcome(conflicts) == IF conflicts # << >> THEN "Conflicts Detected!" ELSE "No conflicts detected!"

DetectReturns ==
    /\ pc = "input"
    /\ ~ DetectRaises(LoadTimetable(timetable_file))
    /\ conflict_df' = detect_conflicts(student_batches_df, LoadTimetable(timetable_file))
    /\ shown' = Outcome(conflict_df')
    /\ result' = "returned"
    /\ pc' = "done"
    /\ UNCHANGED << pandas_legacy, uploaded_files, batch_size, session_state, timetable_file,
                    student_batches_df >>

DetectRaisesKeyError ==
    /\ pc = "input"
    /\ DetectRaises(LoadTimetable(timetable_file))
    /\ result' = "raised"
    /\ shown' = "exception"
    /\ pc' = "done"
    /\ UNCHANGED << pandas_legacy, uploaded_files, batch_size, session_state, timetable_file,
                    student_batches_df, conflict_df >>

NextDetect == DetectReturns \/ DetectRaisesKeyError

SpecDetect == InitDetect /\ [][NextDetect]_vars

(***************************************************************************)
(* Claims about detect_conflicts, checked under SpecDetect.                *)
(***************************************************************************)
Timetable == LoadTimetable(timetable_file)

Weekdays == { "Monday", "Tuesday", "Wednesday", "Thursday", "Friday" }

WeekdayColumns == { c \in 1..Len(Timetable.columns) : Timetable.columns[c] \in Weekdays }

ClassTimeColumn == CHOOSE c \in 1..Len(Timetable.columns) : Timetable.columns[c] = "Class time"

\* a Day/Class-time cell: row i of the timetable under weekday column c, both cells filled
IsCell(i, c) == Timetable.rows[i][ClassTimeColumn] # NaN /\ Timetable.rows[i][c] # NaN

GridCells == { << i, c >> \in (1..Len(Timetable.rows)) \X WeekdayColumns : IsCell(i, c) }

SlotOf(cell) == Strip(Timetable.rows[cell[1]][ClassTimeColumn])

DayOf(cell) == Timetable.columns[cell[2]]

\* the batch codes a cell names, whatever their letter case and spacing
CodesIn(text) == { Upper(RemoveSpaces(x)) : x \in Range(Split(text, ";")) } \ { "" }

Registrations == { student_batches_df[r].Registration_Number : r \in 1..Len(student_batches_df) }

BatchesOf(reg) ==
    { Upper(RemoveSpaces(student_batches_df[r].Batch_Number)) :
        r \in { q \in 1..Len(student_batches_df) : student_batches_df[q].Registration_Number = reg } }

\* the batches of the student that are active in the cell
ActiveOf(reg, cell) == BatchesOf(reg) \cap CodesIn(Timetable.rows[cell[1]][cell[2]])

\* the batch codes a conflict row lists
Listed(row) == { Strip(x) : x \in Range(Split(row.Conflicting_Batches, ",")) }

RowsFor(reg, day, slot, batches) ==
    { k \in 1..Len(conflict_df) :
        /\ conflict_df[k].Registration_Number = reg
        /\ conflict_df[k].Day = day
        /\ conflict_df[k].Time_Slot = slot
        /\ Listed(conflict_df[k]) = batches }

\* C2: a student with two or more batches active in a cell has one conflict row
\* for that cell, listing all those batches: the rows for (student, day, slot,
\* batches) are as many as the cells of that day and slot where the student has
\* exactly those active batches.
C2_OneRowPerStudentPerCell ==
    result = "returned" =>
        With({ [cell  |-> cell, day |-> DayOf(cell), slot |-> SlotOf(cell),
                codes |-> CodesIn(Timetable.rows[cell[1]][cell[2]])] : cell \in GridCells },
             LAMBDA cells :
        With({ << reg, BatchesOf(reg) >> : reg \in Registrations }, LAMBDA students :
            \A x \in cells : \A s \in students :
                With(s[2] \cap x.codes, LAMBDA active :
                    Cardinality(active) >= 2 =>
                        Cardinality(RowsFor(s[1], x.day, x.slot, active))
                            = Cardinality({ y \in cells :
                                              /\ y.day = x.day
                                              /\ y.slot = x.slot
                                              /\ s[2] \cap y.codes = active }))))

\* the cell "PHY1;CHEM1" with student R1 in both batches: one row listing "PHY1, CHEM1"
C2_Witness ==
    /\ result = "returned"
    /\ \E cell \in GridCells :
           /\ Timetable.rows[cell[1]][cell[2]] = "PHY1;CHEM1"
           /\ ActiveOf("R1", cell) = { "PHY1", "CHEM1" }
    /\ Len(conflict_df) = 1
    /\ conflict_df[1].Registration_Number = "R1"
    /\ conflict_df[1].Conflicting_Batches = "PHY1, CHEM1"

\* C3: every conflict row is for a student with at least two different batches
\* active in a cell of the row's day and slot.
C3_OnlyRealConflicts ==
    result = "returned" =>
        \A k \in 1..Len(conflict_df) :
            \E cell \in GridCells :
                /\ DayOf(cell) = conflict_df[k].Day
                /\ SlotOf(cell) = conflict_df[k].Time_Slot
                /\ Cardinality(ActiveOf(conflict_df[k].Registration_Number, cell)) >= 2

Known == { student_batches_df[r].Batch_Number : r \in 1..Len(student_batches_df) }

RECURSIVE JoinWith(_, _)
JoinWith(seq, sep) ==
    IF seq = << >> THEN ""
    ELSE IF Len(seq) = 1 THEN seq[1]
    ELSE seq[1] \o sep \o JoinWith(Tail(seq), sep)

\* the tokens that match a known batch code up to case and spacing, each written
\* as that code; known holds the pairs << code, code in capitals without spaces >>
RECURSIVE CanonicalTokens(_, _)
CanonicalTokens(tokens, known) ==
    IF tokens = << >> THEN << >>
    ELSE With(Upper(RemoveSpaces(Head(tokens))), LAMBDA token :
             IF \E k \in known : k[2] = token
             THEN << (CHOOSE k \in known : k[2] = token)[1] >>
             ELSE << >>)
         \o CanonicalTokens(Tail(tokens), known)

\* the cell with every token written as the known batch code it differs from in
\* case and spacing only, and without the tokens that are no known batch code
Canonical(text) ==
    JoinWith(CanonicalTokens(Split(text, ";"), { << b, Upper(RemoveSpaces(b)) >> : b \in Known }), ";")

\* the cell with an unknown token added
Padded(text) == text \o "; zzz9"

Rewritten(Change(_)) ==
    With(Timetable, LAMBDA tt :
        DataFrame(tt.columns,
                  [i \in 1..Len(tt.rows) |->
                      [c \in 1..Len(tt.columns) |->
                          IF tt.columns[c] \in Weekdays /\ tt.rows[i][c] # NaN
                          THEN Change(tt.rows[i][c])
                          ELSE tt.rows[i][c]]]))

\* C4: the conflicts are those of the timetable whose tokens are written as the
\* known batch codes they match up to case and whitespace and whose unknown
\* tokens are removed, and those of the timetable with unknown tokens added;
\* unknown tokens raise no error.
C4_TokensNormalized ==
    /\ pc = "done" /\ HasColumn(Timetable, "Class time") => result = "returned"
    /\ result = "returned" =>
           /\ conflict_df = detect_conflicts(student_batches_df, Rewritten(Canonical))
           /\ conflict_df = detect_conflicts(student_batches_df, Rewritten(Padded))

\* a cell with lower-case letters, spaces and an unknown token, and a conflict found in it
C4_Witness ==
    /\ result = "returned"
    /\ \E cell \in GridCells :
           /\ Timetable.rows[cell[1]][cell[2]] = " phy1 ; Chem 1 ;xyz9"
           /\ ActiveOf("R1", cell) = { "PHY1", "CHEM1" }
    /\ Len(conflict_df) = 1
    /\ conflict_df[1].Conflicting_Batches = "PHY1, CHEM1"

(***************************************************************************)
(* Spec: one session of the Streamlit app (lines 95-160).  Every user      *)
(* action changes one widget and runs the whole script; a button is TRUE   *)
(* only in the run its press starts.  A widget can be used when the last   *)
(* run reached the line that draws it; a widget that was not drawn keeps   *)
(* its value.                                                              *)
(***************************************************************************)
MinBatchSize == 5

DefaultBatchSize == 20

NoSession == [has |-> FALSE, subject_batches |-> << >>]

RosterWidgets(files) == IF files # << >> THEN { "batch_size", "generate" } ELSE { }

\* what a script run leaves: the session state, the tables of the run, what the
\* page shows, and in result how the run went: the line an exception left it at
\* (0 for none), the buttons that were TRUE in it, and the widgets it drew
RunEnd(ss, df, conflicts, message, line, generate, check, widgets) ==
    [session_state      |-> ss,
     student_batches_df |-> df,
     conflict_df        |-> conflicts,
     shown              |-> message,
     result             |-> [exception_line |-> line, generated |-> generate,
                             checked |-> check, widgets |-> widgets]]

\* lines 107-160, with the session state ss that lines 101-105 left
ResultsPart(files, ss, timetable, generate, check, legacy) ==
    LET w == RosterWidgets(files)
    IN  IF ~ ss.has
        THEN RunEnd(ss, << >>, << >>, "Step 1: Upload Subject Allocation Files", 0, generate, FALSE, w)
        ELSE IF timetable = NoFile
        THEN RunEnd(ss, << >>, << >>, "Batch Formation Results", 0, generate, FALSE,
                    w \cup { "timetable" })
        ELSE IF ReadExcelRaises(timetable)
        THEN RunEnd(ss, << >>, << >>, "exception", 118, generate, FALSE, w \cup { "timetable" })
        ELSE IF ConcatRaises(ss.subject_batches)
        THEN RunEnd(ss, << >>, << >>, "exception", 128, generate, FALSE, w \cup { "timetable" })
        ELSE IF StrAccessorRaises(ss.subject_batches, legacy)
        THEN RunEnd(ss, << >>, << >>, "exception", 129, generate, FALSE, w \cup { "timetable" })
        ELSE With(CombinedBatches(ss.subject_batches), LAMBDA df :
             LET drawn == w \cup { "timetable", "check" }
             IN  IF ~ check
                 THEN RunEnd(ss, df, << >>, "Timetable Template Loaded", 0, generate, FALSE, drawn)
                 ELSE IF DetectRaises(LoadTimetable(timetable))
                 THEN RunEnd(ss, df, << >>, "exception", 146, generate, TRUE, drawn)
                 ELSE With(detect_conflicts(df, LoadTimetable(timetable)), LAMBDA conflicts :
                      RunEnd(ss, df, conflicts, Outcome(conflicts), 0, generate, TRUE, drawn)))

\* batches formed in every run that has files
GeneratePressed_EveryRun(files, generate) == files # << >>

\* line 104: the button's value counts only when the files drew it
GeneratePressed(files, generate) == files # << >> /\ generate

\* one run of the script
ScriptRun(files, size, ss, timetable, generate, check, legacy) ==
    IF GeneratePressed(files, generate)
    THEN With(form_batches_by_subject(files, size), LAMBDA formed :
             IF formed.raised
             THEN RunEnd(ss, << >>, << >>, "exception", 105, generate, FALSE, RosterWidgets(files))
             ELSE ResultsPart(files, [has |-> TRUE, subject_batches |-> formed.subject_batches],
                              timetable, generate, check, legacy))
    ELSE ResultsPart(files, ss, timetable, FALSE, check, legacy)

SessionRosters ==
    { File("phy.csv", "csv", << GoodHeader >> \o FirstStudents(MinBatchSize + 1)),
      File("chem.xlsx", "excel",
           << << "PCCOE", NaN, NaN >>, OtherHeader >> \o Students(<< 1, MinBatchSize + 1 >>)),
      File("eco.csv", "csv", << GoodHeader >>),
      File("bio.csv", "csv", << << "Division", "Name", "Student Name" >>, Student(1) >>),
      File("geo.csv", "csv", << << "Roll No", "Student Name" >>, << "R1", "S1" >> >>) }

SessionTimetables ==
    { File("tt.xlsx", "excel",
           << << "Class time", "Monday" >>, << "9:00", "PHY1;CHEM1" >>, << "10:00", "PHY2" >> >>),
      File("tt.xlsx", "excel", << << "Time", "Monday" >>, << "9:00", "PHY1;CHEM1" >> >>),
      File("tt.xlsx", "garbage", << >>) }

Init ==
    /\ pandas_legacy \in BOOLEAN
    /\ uploaded_files = << >>
    /\ batch_size = DefaultBatchSize
    /\ session_state = NoSession
    /\ timetable_file = NoFile
    /\ student_batches_df = << >>
    /\ conflict_df = << >>
    /\ shown = "Step 1: Upload Subject Allocation Files"
    /\ result = [exception_line |-> 0, generated |-> FALSE, checked |-> FALSE, widgets |-> { }]
    /\ pc = "ready"

\* the script runs with the widgets' new values
Rerun(files, size, timetable, generate, check) ==
    \E end \in { ScriptRun(files, size, session_state, timetable, generate, check, pandas_legacy) } :
        /\ uploaded_files' = files
        /\ batch_size' = size
        /\ timetable_file' = timetable
        /\ session_state' = end.session_state
        /\ student_batches_df' = end.student_batches_df
        /\ conflict_df' = end.conflict_df
        /\ shown' = end.shown
        /\ result' = end.result
        /\ UNCHANGED << pandas_legacy, pc >>

UploadRoster(file) ==
    /\ Len(uploaded_files) < MaxFiles
    /\ file \notin Range(uploaded_files)
    /\ Rerun(Append(uploaded_files, file), batch_size, timetable_file, FALSE, FALSE)

RemoveRoster(i) ==
    /\ i \in 1..Len(uploaded_files)
    /\ Rerun(RemoveAt(uploaded_files, i), batch_size, timetable_file, FALSE, FALSE)

SetBatchSize(size) ==
    /\ "batch_size" \in result.widgets
    /\ size # batch_size
    /\ Rerun(uploaded_files, size, timetable_file, FALSE, FALSE)

GenerateBatches ==
    /\ "generate" \in result.widgets
    /\ Rerun(uploaded_files, batch_size, timetable_file, TRUE, FALSE)

UploadTimetable(file) ==
    /\ "timetable" \in result.widgets
    /\ file # timetable_file
    /\ Rerun(uploaded_files, batch_size, file, FALSE, FALSE)

RemoveTimetable ==
    /\ "timetable" \in result.widgets
    /\ timetable_file # NoFile
    /\ Rerun(uploaded_files, batch_size, NoFile, FALSE, FALSE)

CheckForConflicts ==
    /\ "check" \in result.widgets
    /\ Rerun(uploaded_files, batch_size, timetable_file, FALSE, TRUE)

Next ==
    \/ \E file \in SessionRosters : UploadRoster(file)
    \/ \E i \in 1..MaxFiles : RemoveRoster(i)
    \/ \E size \in (MinBatchSize..MaxTypedSize) \cup { DefaultBatchSize } : SetBatchSize(size)
    \/ GenerateBatches
    \/ \E file \in SessionTimetables : UploadTimetable(file)
    \/ RemoveTimetable
    \/ CheckForConflicts

Spec == Init /\ [][Next]_vars

(***************************************************************************)
(* Claims about the session, checked under Spec.                           *)
(***************************************************************************)
\* no subject tables at all, or only empty ones
ZeroBatches(subject_batches) ==
    \A i \in 1..Len(subject_batches) : subject_batches[i].value = << >>

\* a workbook with a "Class time" column
UsableTimetable(file) == file.kind = "excel" /\ HasColumn(LoadTimetable(file), "Class time")

\* C8: with zero batches stored and a timetable uploaded, building the combined
\* table and checking for conflicts raise nothing, and a check that finds no
\* conflict shows 'No conflicts detected!', which no failed run shows.
C8_EmptyResultsAreValid ==
    /\ (session_state.has /\ ZeroBatches(session_state.subject_batches)
            /\ UsableTimetable(timetable_file))
        => result.exception_line \notin { 128, 129, 146 }
    /\ (result.checked /\ result.exception_line = 0 /\ conflict_df = << >>)
        => shown = "No conflicts detected!"
    /\ shown = "No conflicts detected!" => result.exception_line = 0

Stored(files, size) ==
    [has |-> TRUE, subject_batches |-> form_batches_by_subject(files, size).subject_batches]

\* C9: a conflict check runs only with a batch table stored in the session and
\* a timetable uploaded, and on the combined table of the stored batches; the
\* stored batches change only in a run started by 'Generate Batches', which
\* stores the batches of the files and batch size of that moment.
C9_StoredBatchesUsed ==
    /\ [](result.checked =>
            /\ session_state.has
            /\ timetable_file # NoFile
            /\ student_batches_df = CombinedBatches(session_state.subject_batches)
            /\ result.exception_line = 0 =>
                   conflict_df = detect_conflicts(student_batches_df, LoadTimetable(timetable_file)))
    /\ [][/\ session_state' # session_state =>
                 /\ result'.generated
                 /\ uploaded_files' = uploaded_files
                 /\ batch_size' = batch_size
          /\ result'.generated /\ result'.exception_line # 105 =>
                 session_state' = Stored(uploaded_files, batch_size)]_vars

\* a check that found conflicts in batches the present files and size would not give
C9_Witness ==
    /\ result.checked
    /\ conflict_df # << >>
    /\ uploaded_files # << >>
    /\ ~ form_batches_by_subject(uploaded_files, batch_size).raised
    /\ session_state # Stored(uploaded_files, batch_size)

====
